---- MODULE Spec2Model ----
(***************************************************************************)
(* Weather-Wise: the CitySearchForm component (query, suggestions, the     *)
(* debounce and blur timers, the suggestion requests in flight), the       *)
(* fetchCitySuggestions / fetchWeatherData library functions and the       *)
(* HomePage state that handleCitySelect drives.                            *)
(*                                                                         *)
(* Strings are sequences of one-character strings, so that length, trim    *)
(* and the "<name>, <country>" formatting are computed, not assumed.       *)
(* The event loop is single threaded: every action is one macrotask (an    *)
(* event handler, a timer callback, the continuation of an awaited call).  *)
(* A call that resolves without touching the network continues in a        *)
(* microtask, which runs before any other event is dispatched.             *)
(*                                                                         *)
(* Six specifications share the state:                                     *)
(*   Spec          the search form with the page behind it                 *)
(*   PageSpec      the page, with one query typed into the form and every  *)
(*                 answer of the forecast service                          *)
(*   FormSpec      the search form alone, its timers and requests          *)
(*                 scheduled fairly                                        *)
(*   ResolverSpec  WeatherIcon evaluated on its own, over the whole table  *)
(*   DisplaySpec   WeatherDisplay rendered on its own, over complete and   *)
(*                 incomplete data                                         *)
(*   FetchSpec     fetchWeatherData called on its own, in both versions of *)
(*                 the library                                             *)
(***************************************************************************)
EXTENDS Integers, Sequences, FiniteSets, TLC

VARIABLES
    \* ---- CitySearchForm (city-search-form.tsx) ----
    query,                \* useState('')
    suggestions,          \* useState<CitySuggestion[]>([])
    isLoadingSuggestions, \* useState(false)
    showSuggestions,      \* useState(false)
    debounceTimers,       \* pending setTimeout(..., 500) callbacks: {[id, query]}
    handler,              \* the timer id held by the current effect's cleanup
    blurTimers,           \* number of pending setTimeout(..., 150) callbacks
    suggestionRequests,   \* calls of fetchCitySuggestions not yet settled, in issue order
    focused,              \* the input element has the focus
    \* ---- HomePage (page.tsx) ----
    weatherData,
    isLoading,
    error,
    selectedCityName,
    weatherRequests,      \* calls of fetchWeatherData not yet settled, in issue order
    \* ---- configuration ----
    apiKey,               \* process.env.NEXT_PUBLIC_WEATHERAPI_COM_API_KEY is set
    \* ---- observation of the last step (history) ----
    lastEvent,            \* [op, arg]: the handler that ran and its input
    emitted,              \* notifications passed to toast() by the last step
    selected,             \* cities passed to onCitySelect by the last step
    cleared,              \* debounce timers cancelled by clearTimeout in the last step
    dismissed,            \* the list was dismissed (selection / blur expiry) and no focus or input change came since
    fetchesSinceChange,   \* calls of fetchCitySuggestions made since the query last changed
    \* ---- WeatherIcon (weather-icon.tsx) ----
    iconTypeof,           \* what typeof gives for an icon component imported from lucide-react
    iconMapWrites,        \* the entries assigned to the module-level table since it was built
    iconCall,             \* the last evaluation of WeatherIcon: [code, isDay, element]
    remembered,           \* an evaluation of WeatherIcon made earlier (history)
    \* ---- fetchWeatherData called on its own ----
    fetchCall,            \* the last call: [variant, cityOrLat, lon, outcome, promise]
    \* ---- WeatherDisplay rendered on its own ----
    display               \* the last render: [made, data, output]

vars == <<query, suggestions, isLoadingSuggestions, showSuggestions,
          debounceTimers, handler, blurTimers, suggestionRequests, focused,
          weatherData, isLoading, error, selectedCityName, weatherRequests,
          apiKey, lastEvent, emitted, selected, cleared, dismissed,
          fetchesSinceChange, iconTypeof, iconMapWrites, iconCall, remembered, fetchCall,
          display>>

componentVars == <<query, suggestions, isLoadingSuggestions, showSuggestions,
                   debounceTimers, handler, blurTimers, suggestionRequests, focused,
                   weatherData, isLoading, error, selectedCityName, weatherRequests,
                   apiKey, lastEvent, emitted, selected, cleared, dismissed,
                   fetchesSinceChange>>

formVars == <<query, suggestions, isLoadingSuggestions, showSuggestions>>
pageVars == <<weatherData, isLoading, error, selectedCityName>>
unitVars == <<iconTypeof, iconMapWrites, iconCall, remembered, fetchCall, display>>

-----------------------------------------------------------------------------
(* Bounds *)

\* calls of fetchCitySuggestions and fetchWeatherData awaited at the same time
MaxInFlight == 2
\* blur timers pending at the same time
MaxBlurTimers == 1

-----------------------------------------------------------------------------
(* Strings *)

MinQueryLenOffByOne == 2

MinQueryLen == 3

Whitespace == {" "}

RECURSIVE TrimStart(_)
TrimStart(s) ==
    IF s = <<>> THEN <<>>
    ELSE IF Head(s) \in Whitespace THEN TrimStart(Tail(s))
    ELSE s

RECURSIVE TrimEnd(_)
TrimEnd(s) ==
    IF s = <<>> THEN <<>>
    ELSE IF s[Len(s)] \in Whitespace THEN TrimEnd(SubSeq(s, 1, Len(s) - 1))
    ELSE s

Trim(s) == TrimEnd(TrimStart(s))


-----------------------------------------------------------------------------
(* Values *)

NullData == [null |-> TRUE]
NullString == "null"
NullName == <<"null">>

CityA == [id |-> 1, name |-> <<"L", "o", "n">>, country |-> <<"U", "K">>, lat |-> 51, lon |-> 0]
CityB == [id |-> 2, name |-> <<"L", "o">>, country |-> <<"U">>, lat |-> 9, lon |-> 4]

Cities == {CityA, CityB}

\* `${city.name}, ${city.country}`
SelectedText(city) == city.name \o <<",", " ">> \o city.country

\* `${city.lat},${city.lon}`, the decimal text of each number kept as one element
WeatherQuery(city) == <<ToString(city.lat), ",", ToString(city.lon)>>

\* values that event.target.value takes
InputStrings ==
    {<<"L", "o">>, <<"L", "o", "n">>, <<" ", " ", " ">>, SelectedText(CityA)}

\* bodies of an OK response of the suggestion service that parse as JSON
ResultLists == {<<>>, <<CityA, CityB>>}

\* what the network can answer to search.json
SuggestionOutcomes ==
    {[kind |-> "network_error", results |-> <<>>],
     [kind |-> "not_ok", results |-> <<>>],
     [kind |-> "not_ok_bad_json", results |-> <<>>],
     [kind |-> "ok_bad_json", results |-> <<>>]}
        \cup {[kind |-> "ok", results |-> r] : r \in ResultLists}

NoNetwork == [kind |-> "none", results |-> <<>>]

\* the answers that are a failure of the request
FailureKinds == {"network_error", "not_ok", "not_ok_bad_json", "ok_bad_json"}

SuggestionErrorToast ==
    [variant |-> "destructive", title |-> "Error",
     description |-> "Could not fetch city suggestions. Please try again later."]

ApiKeyErrorMsg == "WeatherAPI.com API key is not configured. Please set NEXT_PUBLIC_WEATHERAPI_COM_API_KEY in your environment variables."

ApiKeyToast ==
    [variant |-> "destructive", title |-> "API Key Missing", description |-> ApiKeyErrorMsg]

WeatherErrorToast(msg) ==
    [variant |-> "destructive", title |-> "Error fetching weather", description |-> msg]

-----------------------------------------------------------------------------
(* src/lib/weather-api.ts *)

FetchUsesNetworkWithoutKey(q) ==
    ~(Trim(q) = <<>> \/ Len(q) < MinQueryLen)

\* the conditions under which fetchCitySuggestions reaches fetch(url)
FetchUsesNetwork(q) ==
    /\ apiKey
    /\ ~(Trim(q) = <<>> \/ Len(q) < MinQueryLen)

\* the promise returned by fetchCitySuggestions(q) when the network answers `outcome`
FetchCitySuggestions(q, outcome) ==
    IF ~apiKey THEN [state |-> "fulfilled", value |-> <<>>]
    ELSE IF Trim(q) = <<>> \/ Len(q) < MinQueryLen THEN [state |-> "fulfilled", value |-> <<>>]
    ELSE IF outcome.kind = "network_error" THEN [state |-> "fulfilled", value |-> <<>>]
    ELSE IF outcome.kind \in {"not_ok", "not_ok_bad_json"} THEN [state |-> "fulfilled", value |-> <<>>]
    ELSE IF outcome.kind = "ok_bad_json" THEN [state |-> "rejected", value |-> <<>>]
    ELSE [state |-> "fulfilled", value |-> outcome.results]

\* encodeURIComponent on the characters that occur: "," and " " are escaped,
\* letters, digits, "." and "-" are kept
RECURSIVE EncodeURIComponent(_)
EncodeURIComponent(s) ==
    IF s = <<>> THEN <<>>
    ELSE (IF Head(s) = "," THEN <<"%", "2", "C">>
          ELSE IF Head(s) = " " THEN <<"%", "2", "0">>
          ELSE <<Head(s)>>) \o EncodeURIComponent(Tail(s))

\* the q parameter as the service reads it from the URL
RECURSIVE DecodeURIComponent(_)
DecodeURIComponent(s) ==
    IF s = <<>> THEN <<>>
    ELSE IF Len(s) >= 3 /\ SubSeq(s, 1, 3) = <<"%", "2", "C">>
    THEN <<",">> \o DecodeURIComponent(SubSeq(s, 4, Len(s)))
    ELSE IF Len(s) >= 3 /\ SubSeq(s, 1, 3) = <<"%", "2", "0">>
    THEN <<" ">> \o DecodeURIComponent(SubSeq(s, 4, Len(s)))
    ELSE <<Head(s)>> \o DecodeURIComponent(Tail(s))

\* what the network can answer to forecast.json
\* (code, message: the error member of the body; condition, is_day: current.condition.code
\* and current.is_day of the body)
WeatherOutcomes ==
    {[kind |-> "network_error", status |-> 0, code |-> 0, message |-> "Failed to fetch", condition |-> 0, is_day |-> 0],
     [kind |-> "error_payload", status |-> 200, code |-> 1006, message |-> "No matching location found.", condition |-> 0, is_day |-> 0],
     [kind |-> "error_payload", status |-> 400, code |-> 1006, message |-> "No matching location found.", condition |-> 0, is_day |-> 0],
     [kind |-> "data", status |-> 200, code |-> 0, message |-> "", condition |-> 1000, is_day |-> 1]}

\* further bodies of an OK answer: another condition, at night
MoreWeatherOutcomes ==
    {[kind |-> "data", status |-> 200, code |-> 0, message |-> "", condition |-> 1006, is_day |-> 0]}

\* the outcome of a call that returns before fetch(url)
NoWeatherCall == [kind |-> "none", status |-> 0, code |-> 0, message |-> "", condition |-> 0, is_day |-> 0]

\* the parsed body of an OK answer to the request for q
WeatherDataOf(q, outcome) ==
    [null |-> FALSE, location |-> q,
     current |-> [is_day |-> outcome.is_day, condition |-> [code |-> outcome.condition]]]

\* `Failed to fetch weather data. Status: ${response.status}`
StatusMessage(status) ==
    IF status = 500 THEN "Failed to fetch weather data. Status: 500"
    ELSE "Failed to fetch weather data. Status: 400"

\* `Network or parsing error: ${err.message}`
CaughtMessage(msg) ==
    IF msg = "Failed to fetch" THEN "Network or parsing error: Failed to fetch"
    ELSE "Network or parsing error: Unexpected token"

\* the value fetchWeatherData(q) resolves to when the network answers `outcome`
FetchWeatherData(q, outcome) ==
    IF ~apiKey
    THEN [isError |-> TRUE, code |-> -1, message |-> "WeatherAPI.com API key is not configured.", data |-> NullData]
    ELSE IF outcome.kind \in {"network_error", "bad_json"}
    THEN [isError |-> TRUE, code |-> -3, message |-> CaughtMessage(outcome.message), data |-> NullData]
    ELSE IF outcome.status # 200 \/ outcome.kind = "error_payload"
    THEN [isError |-> TRUE,
          code |-> IF outcome.kind = "error_payload" /\ outcome.code # 0 THEN outcome.code ELSE outcome.status,
          message |-> IF outcome.kind = "error_payload" /\ outcome.message # "" THEN outcome.message ELSE StatusMessage(outcome.status),
          data |-> NullData]
    ELSE [isError |-> FALSE, code |-> 0, message |-> "",
          data |-> WeatherDataOf(DecodeURIComponent(EncodeURIComponent(q)), outcome)]

-----------------------------------------------------------------------------
(* fetchWeatherData(cityOrLat, lon) with arguments of any type, in both versions of the library *)

\* JavaScript values passed as cityOrLat and lon; a string is well formed
\* when it holds no lone surrogate (encodeURIComponent throws a URIError otherwise)
Num(n) == [type |-> "number", value |-> <<ToString(n)>>, wellFormed |-> TRUE]
Str(chars, wellFormed) == [type |-> "string", value |-> chars, wellFormed |-> wellFormed]
UndefinedArg == [type |-> "undefined", value |-> <<>>, wellFormed |-> TRUE]

CityOrLatArgs ==
    {Num(51), UndefinedArg, Str(<<"L", "o", "n">>, TRUE), Str(<<"5", "1", ",", "0">>, TRUE),
     Str(<<"L", "o", "n", "\\uD800">>, FALSE)}

LonArgs == {Num(0), UndefinedArg}

\* answers of the network beyond those the page is run with: a body that is
\* no JSON, and a non-OK answer whose body has no error message
FetchOutcomes ==
    WeatherOutcomes \cup MoreWeatherOutcomes \cup
    {[kind |-> "bad_json", status |-> 200, code |-> 0, message |-> "Unexpected token", condition |-> 0, is_day |-> 0],
     [kind |-> "bad_json", status |-> 500, code |-> 0, message |-> "Unexpected token", condition |-> 0, is_day |-> 0],
     [kind |-> "no_payload", status |-> 500, code |-> 0, message |-> "", condition |-> 0, is_day |-> 0]}

Fulfilled(value) == [state |-> "fulfilled", value |-> value]
Rejected(message) == [state |-> "rejected", value |-> [isError |-> TRUE, code |-> 0, message |-> message, data |-> NullData]]

\* the query text of the arguments: `${cityOrLat},${lon}` or the city name
QueryOf(cityOrLat, lon) ==
    IF cityOrLat.type = "number" /\ lon.type = "number"
    THEN cityOrLat.value \o <<",">> \o lon.value
    ELSE cityOrLat.value

\* the promise of the WeatherAPI.com version
FetchWeatherDataPromise(cityOrLat, lon, outcome) ==
    IF ~apiKey THEN Fulfilled(FetchWeatherData(<<>>, outcome))
    ELSE IF cityOrLat.type = "number" /\ lon.type = "number"
    THEN Fulfilled(FetchWeatherData(QueryOf(cityOrLat, lon), outcome))
    ELSE IF cityOrLat.type = "string"
    THEN IF cityOrLat.wellFormed
         THEN Fulfilled(FetchWeatherData(QueryOf(cityOrLat, lon), outcome))
         ELSE Rejected("URI malformed")
    ELSE Fulfilled([isError |-> TRUE, code |-> -2,
                    message |-> "Invalid parameters for fetching weather data.", data |-> NullData])

\* `Failed to fetch weather data: ${errorData.message}`
FailedMessage(msg) ==
    IF msg = "No matching location found."
    THEN "Failed to fetch weather data: No matching location found."
    ELSE "Failed to fetch weather data: Unexpected token"

\* the promise of the OpenWeatherMap version
FetchWeatherDataOWM(cityOrLat, lon, outcome) ==
    IF ~apiKey THEN Rejected("OpenWeatherMap API key is not configured.")
    ELSE IF ~(cityOrLat.type = "number" /\ lon.type = "number") /\ cityOrLat.type # "string"
    THEN Rejected("Invalid parameters for fetching weather data.")
    ELSE IF cityOrLat.type = "string" /\ ~cityOrLat.wellFormed
    THEN Rejected("URI malformed")
    ELSE IF outcome.kind = "network_error" THEN Rejected(outcome.message)
    ELSE IF outcome.kind = "bad_json" THEN Rejected(outcome.message)
    ELSE IF outcome.status # 200
    THEN IF outcome.message # ""
         THEN Rejected(FailedMessage(outcome.message))
         ELSE Rejected(StatusMessage(outcome.status))
    ELSE IF outcome.kind = "data"
    THEN Fulfilled([isError |-> FALSE, code |-> 0, message |-> "",
                    data |-> WeatherDataOf(QueryOf(cityOrLat, lon), outcome)])
    ELSE Fulfilled([isError |-> TRUE, code |-> outcome.code, message |-> outcome.message, data |-> NullData])

LibraryVersions == {"weatherapi", "openweathermap"}

\* no call of fetchWeatherData yet
NoFetchCall ==
    [made |-> FALSE, version |-> "weatherapi", cityOrLat |-> UndefinedArg, lon |-> UndefinedArg,
     outcome |-> NoWeatherCall, promise |-> Fulfilled(NullData)]

-----------------------------------------------------------------------------
(* src/components/weather/weather-icon.tsx *)

\* the icon components imported from lucide-react
LucideIcons ==
    {"Sun", "Moon", "CloudSun", "CloudMoon", "Cloud", "Cloudy", "CloudRain", "CloudDrizzle",
     "CloudLightning", "CloudSnow", "CloudFog", "Wind", "ThermometerSnowflake", "ThermometerSun"}

\* an icon component, a { day, night } object of the table, and the value of a missing key
Icon(name) == [component |-> name]
DayNight(day, night) == [day |-> Icon(day), night |-> Icon(night)]
Undefined == [undefined |-> TRUE]

\* a React.ElementType is a function (a function component) or an object (what
\* React.forwardRef and React.memo return); lucide-react decides which
IconTypeofs == {"function", "object"}

\* the object literal bound to weatherApiIconMap
WeatherApiIconMapLiteral ==
    1000 :> DayNight("Sun", "Moon") @@ 1003 :> DayNight("CloudSun", "CloudMoon") @@
    1006 :> Icon("Cloud") @@ 1009 :> Icon("Cloudy") @@
    1030 :> Icon("CloudFog") @@ 1135 :> Icon("CloudFog") @@
    1147 :> Icon("CloudFog") @@ 1063 :> DayNight("CloudDrizzle", "CloudDrizzle") @@
    1150 :> DayNight("CloudDrizzle", "CloudDrizzle") @@ 1153 :> Icon("CloudDrizzle") @@
    1180 :> DayNight("CloudDrizzle", "CloudDrizzle") @@ 1183 :> Icon("CloudDrizzle") @@
    1186 :> DayNight("CloudRain", "CloudRain") @@ 1189 :> Icon("CloudRain") @@
    1168 :> Icon("CloudSnow") @@ 1171 :> Icon("CloudSnow") @@
    1192 :> DayNight("CloudRain", "CloudRain") @@ 1195 :> Icon("CloudRain") @@
    1069 :> DayNight("CloudDrizzle", "CloudDrizzle") @@ 1204 :> Icon("CloudDrizzle") @@
    1207 :> Icon("CloudDrizzle") @@ 1240 :> DayNight("CloudRain", "CloudRain") @@
    1243 :> DayNight("CloudRain", "CloudRain") @@ 1246 :> Icon("CloudRain") @@
    1066 :> DayNight("CloudSnow", "CloudSnow") @@ 1114 :> Icon("CloudSnow") @@
    1117 :> Icon("CloudSnow") @@ 1210 :> DayNight("CloudSnow", "CloudSnow") @@
    1213 :> Icon("CloudSnow") @@ 1216 :> DayNight("CloudSnow", "CloudSnow") @@
    1219 :> Icon("CloudSnow") @@ 1222 :> DayNight("CloudSnow", "CloudSnow") @@
    1225 :> Icon("CloudSnow") @@ 1237 :> Icon("CloudSnow") @@
    1249 :> Icon("CloudSnow") @@ 1252 :> Icon("CloudSnow") @@
    1255 :> DayNight("CloudSnow", "CloudSnow") @@ 1258 :> Icon("CloudSnow") @@
    1261 :> Icon("CloudSnow") @@ 1264 :> Icon("CloudSnow") @@
    1087 :> Icon("CloudLightning") @@ 1273 :> Icon("CloudLightning") @@
    1276 :> Icon("CloudLightning") @@ 1279 :> Icon("CloudLightning") @@
    1282 :> Icon("CloudLightning")

\* the table object as it is now: the literal, with the entries assigned since
weatherApiIconMap == iconMapWrites @@ WeatherApiIconMapLiteral

\* the codes WeatherIcon compares with before it renders the selected icon
SentinelCodes == {-100, -101, -102}

\* codes that are no key of the table and no sentinel
UnknownCodes == {0, 1001, 999999, -1, -103}

\* values of the weatherApiConditionCode prop
InputCodes == DOMAIN WeatherApiIconMapLiteral \cup SentinelCodes \cup UnknownCodes

\* typeof v
TypeOf(v) ==
    IF v = Undefined THEN "undefined"
    ELSE IF "component" \in DOMAIN v THEN iconTypeof
    ELSE "object"

\* <Type ... />
Element(type) == [type |-> type]

WeatherIconNoDefault(weatherApiConditionCode, isDay) ==
    LET iconMappingEntry ==
            IF weatherApiConditionCode \in DOMAIN weatherApiIconMap
            THEN weatherApiIconMap[weatherApiConditionCode]
            ELSE Undefined
        SelectedIcon ==
            IF /\ TypeOf(iconMappingEntry) = "object"
               /\ "day" \in DOMAIN iconMappingEntry
               /\ "night" \in DOMAIN iconMappingEntry
            THEN IF isDay THEN iconMappingEntry.day ELSE iconMappingEntry.night
            ELSE IF TypeOf(iconMappingEntry) = "function" THEN iconMappingEntry
            ELSE Undefined
    IN IF weatherApiConditionCode = -100 THEN Element(Icon("ThermometerSun"))
       ELSE IF weatherApiConditionCode = -101 THEN Element(Icon("ThermometerSnowflake"))
       ELSE IF weatherApiConditionCode = -102 THEN Element(Icon("Wind"))
       ELSE Element(SelectedIcon)

WeatherIconNoSentinels(weatherApiConditionCode, isDay) ==
    LET iconMappingEntry ==
            IF weatherApiConditionCode \in DOMAIN weatherApiIconMap
            THEN weatherApiIconMap[weatherApiConditionCode]
            ELSE Undefined
        SelectedIcon ==
            IF /\ TypeOf(iconMappingEntry) = "object"
               /\ "day" \in DOMAIN iconMappingEntry
               /\ "night" \in DOMAIN iconMappingEntry
            THEN IF isDay THEN iconMappingEntry.day ELSE iconMappingEntry.night
            ELSE IF TypeOf(iconMappingEntry) = "function" THEN iconMappingEntry
            ELSE IF isDay THEN Icon("Sun") ELSE Icon("Moon")
    IN Element(SelectedIcon)

\* the element WeatherIcon returns
WeatherIcon(weatherApiConditionCode, isDay) ==
    LET iconMappingEntry ==
            IF weatherApiConditionCode \in DOMAIN weatherApiIconMap
            THEN weatherApiIconMap[weatherApiConditionCode]
            ELSE Undefined
        SelectedIcon ==
            IF /\ TypeOf(iconMappingEntry) = "object"
               /\ "day" \in DOMAIN iconMappingEntry
               /\ "night" \in DOMAIN iconMappingEntry
            THEN IF isDay THEN iconMappingEntry.day ELSE iconMappingEntry.night
            ELSE IF TypeOf(iconMappingEntry) = "function" THEN iconMappingEntry
            ELSE IF isDay THEN Icon("Sun") ELSE Icon("Moon")
    IN IF weatherApiConditionCode = -100 THEN Element(Icon("ThermometerSun"))
       ELSE IF weatherApiConditionCode = -101 THEN Element(Icon("ThermometerSnowflake"))
       ELSE IF weatherApiConditionCode = -102 THEN Element(Icon("Wind"))
       ELSE Element(SelectedIcon)

\* no evaluation of WeatherIcon yet
NoCall == [code |-> 0, isDay |-> FALSE, element |-> Element(Undefined), made |-> FALSE]

-----------------------------------------------------------------------------
(* src/components/weather/weather-display.tsx: WeatherDisplay *)

\* an object has the property
Has(obj, field) == field \in DOMAIN obj

\* an object with the property added
With(obj, field, value) == (field :> value) @@ obj

EmptyObject == [x \in {} |-> 0]

\* values of current.is_day; the API documents 1 and 0
IsDayValues == {0, 1, 2}

\* condition codes of the rendered data: a day/night pair and a single icon
DisplayCodes == {1000, 1006}

\* data.current: without its condition, or with it
CurrentObjects ==
    {[is_day |-> d] : d \in IsDayValues}
        \cup {[is_day |-> d, condition |-> [code |-> c, text |-> "text"], vis_km |-> 10] :
                 d \in IsDayValues, c \in DisplayCodes}

\* data.forecast: no forecastday, an empty list, a day without its parts, a full day
ForecastObjects ==
    {EmptyObject,
     [forecastday |-> <<>>],
     [forecastday |-> <<[date |-> "d"]>>],
     [forecastday |-> <<[date |-> "d", day |-> [mintemp_c |-> 1, maxtemp_c |-> 2],
                         astro |-> [sunrise |-> "r", sunset |-> "s"]]>>]}

RECURSIVE Objects(_, _)
\* every object that has, for each field of the list, either no such property
\* or one of the values listed for it
Objects(base, fields) ==
    IF fields = <<>>
    THEN {base}
    ELSE LET rest == Objects(base, Tail(fields))
             f == Head(fields)
         IN rest \cup {With(obj, f.name, v) : obj \in rest, v \in f.values}

\* the values handed to <WeatherDisplay data={...} />
DisplayData ==
    {NullData} \cup
    Objects([null |-> FALSE],
            <<[name |-> "error", values |-> {[code |-> 1006, message |-> "No matching location found."]}],
              [name |-> "location", values |-> {[name |-> "London", country |-> "UK"]}],
              [name |-> "current", values |-> CurrentObjects],
              [name |-> "forecast", values |-> ForecastObjects]>>)

FallbackCard == [kind |-> "fallback", icons |-> <<>>]
RenderThrows == [kind |-> "throws", icons |-> <<>>]

\* the WeatherIcon elements of a completed render, evaluated
Rendered(icons) ==
    [kind |-> "rendered",
     icons |-> [i \in 1..Len(icons) |->
                   [props |-> icons[i],
                    element |-> WeatherIcon(icons[i].weatherApiConditionCode, icons[i].isDay)]]]

\* !data || data.error || !data.location || !data.current || !data.forecast?.forecastday?.[0]
DisplayGuard(data) ==
    \/ data = NullData
    \/ Has(data, "error")
    \/ ~Has(data, "location")
    \/ ~Has(data, "current")
    \/ ~Has(data, "forecast")
    \/ ~Has(data.forecast, "forecastday")
    \/ Len(data.forecast.forecastday) = 0

WeatherDisplayTruthyDay(data) ==
    IF DisplayGuard(data)
    THEN FallbackCard
    ELSE LET current == data.current
             todayForecast == data.forecast.forecastday[1]
         IN IF ~Has(current, "condition") \/ ~Has(current.condition, "text")
            THEN RenderThrows
            ELSE IF ~Has(todayForecast, "day") \/ ~Has(current, "vis_km") \/ ~Has(todayForecast, "astro")
            THEN RenderThrows
            ELSE Rendered(<<[weatherApiConditionCode |-> current.condition.code,
                             isDay |-> (current.is_day # 0)]>>)

\* one render of <WeatherDisplay data={data} />: the fallback card, an
\* exception thrown while the element tree is built, or the tree with its one
\* WeatherIcon element
WeatherDisplay(data) ==
    IF DisplayGuard(data)
    THEN FallbackCard
    ELSE LET current == data.current
             todayForecast == data.forecast.forecastday[1]
         IN \* current.condition.text, read before the WeatherIcon element is made
            IF ~Has(current, "condition") \/ ~Has(current.condition, "text")
            THEN RenderThrows
            \* todayForecast.day.mintemp_c, current.vis_km.toFixed(1), todayForecast.astro.sunrise
            ELSE IF ~Has(todayForecast, "day") \/ ~Has(current, "vis_km") \/ ~Has(todayForecast, "astro")
            THEN RenderThrows
            ELSE Rendered(<<[weatherApiConditionCode |-> current.condition.code,
                             isDay |-> (current.is_day = 1)]>>)

NoDisplay == [made |-> FALSE, data |-> NullData, output |-> FallbackCard]

-----------------------------------------------------------------------------
(* helpers *)

Range(s) == {s[i] : i \in 1..Len(s)}

RemoveAt(s, i) == SubSeq(s, 1, i - 1) \o SubSeq(s, i + 1, Len(s))

\* a continuation that is already queued as a microtask
MicrotaskPending ==
    \/ \E i \in 1..Len(suggestionRequests) : ~suggestionRequests[i].net
    \/ \E i \in 1..Len(weatherRequests) : ~weatherRequests[i].net

\* the number of awaited calls
InFlight == Len(suggestionRequests) + Len(weatherRequests)

\* the id setTimeout returns: any id that no pending timer holds
NewTimerId(timers) ==
    CHOOSE i \in 0..Cardinality(timers) : \A t \in timers : t.id # i

\* the dropdown <Card> is rendered
DropdownDisplayed == showSuggestions /\ Len(suggestions) > 0

\* every request already in flight is superseded by the one being issued
Supersede(reqs) == [i \in 1..Len(reqs) |-> [reqs[i] EXCEPT !.superseded = TRUE]]

\* every invocation of handleCitySelect still awaiting its fetch runs
\* concurrently with the one being started
Overlap(reqs) == [i \in 1..Len(reqs) |-> [reqs[i] EXCEPT !.overlapped = TRUE]]

-----------------------------------------------------------------------------
(* CitySearchForm *)

ComponentInit ==
    /\ query = <<>>
    /\ suggestions = <<>>
    /\ isLoadingSuggestions = FALSE
    /\ showSuggestions = FALSE
    /\ debounceTimers = {[id |-> 0, query |-> <<>>]}
    /\ handler = 0
    /\ blurTimers = 0
    /\ suggestionRequests = <<>>
    /\ focused = FALSE
    /\ weatherData = NullData
    /\ isLoading = FALSE
    /\ apiKey \in BOOLEAN
    /\ error = IF apiKey THEN NullString ELSE ApiKeyErrorMsg
    /\ selectedCityName = NullName
    /\ weatherRequests = <<>>
    /\ lastEvent = [op |-> "mount", arg |-> <<>>]
    /\ emitted = IF apiKey THEN <<>> ELSE <<ApiKeyToast>>
    /\ selected = <<>>
    /\ cleared = {}
    /\ dismissed = FALSE
    /\ fetchesSinceChange = <<>>
    /\ iconMapWrites = <<>>
    /\ iconCall = NoCall
    /\ remembered = NoCall
    /\ fetchCall = NoFetchCall
    /\ display = NoDisplay

\* the page never looks at the type of an icon component; lucide-react makes
\* its icons with React.forwardRef, for which typeof gives "object"
Init == ComponentInit /\ iconTypeof = "object"

\* the effect on [query]: the previous run's cleanup, then a new timer
DebounceEffectNoCleanup(newQuery) ==
    IF newQuery = query
    THEN /\ UNCHANGED <<debounceTimers, handler, fetchesSinceChange>>
         /\ cleared' = {}
    ELSE /\ debounceTimers' = debounceTimers \cup {[id |-> NewTimerId(debounceTimers), query |-> newQuery]}
         /\ handler' = NewTimerId(debounceTimers)
         /\ cleared' = {}
         /\ fetchesSinceChange' = <<>>

DebounceEffect(newQuery) ==
    IF newQuery = query
    THEN /\ UNCHANGED <<debounceTimers, handler, fetchesSinceChange>>
         /\ cleared' = {}
    ELSE LET kept == {t \in debounceTimers : t.id # handler}
         IN /\ debounceTimers' = kept \cup {[id |-> NewTimerId(kept), query |-> newQuery]}
            /\ handler' = NewTimerId(kept)
            /\ cleared' = debounceTimers \ kept
            /\ fetchesSinceChange' = <<>>

DebouncedFetchSuggestions(currentQuery) ==
    IF Len(currentQuery) < MinQueryLen
    THEN /\ suggestions' = <<>>
         /\ showSuggestions' = FALSE
         /\ UNCHANGED <<isLoadingSuggestions, suggestionRequests, fetchesSinceChange>>
    ELSE /\ InFlight < MaxInFlight
         /\ isLoadingSuggestions' = TRUE
         /\ suggestionRequests' =
                Append(Supersede(suggestionRequests),
                       [query |-> currentQuery, net |-> FetchUsesNetwork(currentQuery), superseded |-> FALSE])
         /\ fetchesSinceChange' =
                Append(fetchesSinceChange, [query |-> currentQuery, net |-> FetchUsesNetwork(currentQuery)])
         /\ UNCHANGED <<suggestions, showSuggestions>>

DebounceTimerRepeats(t) ==
    /\ t \in debounceTimers
    /\ ~MicrotaskPending
    /\ UNCHANGED debounceTimers
    /\ DebouncedFetchSuggestions(t.query)
    /\ lastEvent' = [op |-> "debounceTimer", arg |-> <<>>]
    /\ emitted' = <<>>
    /\ selected' = <<>>
    /\ UNCHANGED unitVars
    /\ cleared' = {}
    /\ UNCHANGED <<query, handler, blurTimers, focused, pageVars, weatherRequests, apiKey, dismissed>>

DebounceTimerFires(t) ==
    /\ t \in debounceTimers
    /\ ~MicrotaskPending
    /\ debounceTimers' = debounceTimers \ {t}
    /\ DebouncedFetchSuggestions(t.query)
    /\ lastEvent' = [op |-> "debounceTimer", arg |-> <<>>]
    /\ emitted' = <<>>
    /\ selected' = <<>>
    /\ UNCHANGED unitVars
    /\ cleared' = {}
    /\ UNCHANGED <<query, handler, blurTimers, focused, pageVars, weatherRequests, apiKey, dismissed>>

SuggestionSettlesNoFinally(i, outcome) ==
    /\ i \in 1..Len(suggestionRequests)
    /\ IF suggestionRequests[i].net
       THEN outcome \in SuggestionOutcomes /\ ~MicrotaskPending
       ELSE outcome = NoNetwork
    /\ LET r == suggestionRequests[i]
           promise == FetchCitySuggestions(r.query, outcome)
       IN /\ IF promise.state = "fulfilled"
             THEN /\ suggestions' = promise.value
                  /\ showSuggestions' = (Len(promise.value) > 0)
                  /\ emitted' = <<>>
                  /\ isLoadingSuggestions' = FALSE
             ELSE /\ emitted' = <<SuggestionErrorToast>>
                  /\ suggestions' = <<>>
                  /\ showSuggestions' = FALSE
                  /\ UNCHANGED isLoadingSuggestions
          /\ lastEvent' = [op |-> "suggestionSettled",
                           arg |-> [failed |-> (outcome.kind \in FailureKinds), promise |-> promise.state,
                                    superseded |-> r.superseded]]
    /\ suggestionRequests' = RemoveAt(suggestionRequests, i)
    /\ selected' = <<>>
    /\ UNCHANGED unitVars
    /\ cleared' = {}
    /\ UNCHANGED <<query, debounceTimers, handler, blurTimers, focused, pageVars,
                   weatherRequests, apiKey, dismissed, fetchesSinceChange>>

SuggestionSettles(i, outcome) ==
    /\ i \in 1..Len(suggestionRequests)
    /\ IF suggestionRequests[i].net
       THEN outcome \in SuggestionOutcomes /\ ~MicrotaskPending
       ELSE outcome = NoNetwork
    /\ LET r == suggestionRequests[i]
           promise == FetchCitySuggestions(r.query, outcome)
       IN /\ IF promise.state = "fulfilled"
             THEN /\ suggestions' = promise.value
                  /\ showSuggestions' = (Len(promise.value) > 0)
                  /\ emitted' = <<>>
             ELSE /\ emitted' = <<SuggestionErrorToast>>
                  /\ suggestions' = <<>>
                  /\ showSuggestions' = FALSE
          /\ lastEvent' = [op |-> "suggestionSettled",
                           arg |-> [failed |-> (outcome.kind \in FailureKinds), promise |-> promise.state,
                                    superseded |-> r.superseded]]
    /\ isLoadingSuggestions' = FALSE
    /\ suggestionRequests' = RemoveAt(suggestionRequests, i)
    /\ selected' = <<>>
    /\ UNCHANGED unitVars
    /\ cleared' = {}
    /\ UNCHANGED <<query, debounceTimers, handler, blurTimers, focused, pageVars,
                   weatherRequests, apiKey, dismissed, fetchesSinceChange>>

HandleInputChangeClearsList(newQuery) ==
    /\ focused
    /\ ~isLoading
    /\ ~MicrotaskPending
    /\ newQuery # query
    /\ query' = newQuery
    /\ showSuggestions' = (Len(newQuery) >= MinQueryLen)
    /\ suggestions' = <<>>
    /\ DebounceEffect(newQuery)
    /\ lastEvent' = [op |-> "handleInputChange", arg |-> <<>>]
    /\ emitted' = <<>>
    /\ selected' = <<>>
    /\ UNCHANGED unitVars
    /\ dismissed' = FALSE
    /\ UNCHANGED <<isLoadingSuggestions, blurTimers, suggestionRequests, focused,
                   pageVars, weatherRequests, apiKey>>

HandleInputChange(newQuery) ==
    /\ focused
    /\ ~isLoading
    /\ ~MicrotaskPending
    /\ newQuery # query
    /\ query' = newQuery
    /\ IF Len(newQuery) >= MinQueryLen
       THEN showSuggestions' = TRUE /\ UNCHANGED suggestions
       ELSE showSuggestions' = FALSE /\ suggestions' = <<>>
    /\ DebounceEffect(newQuery)
    /\ lastEvent' = [op |-> "handleInputChange", arg |-> <<>>]
    /\ emitted' = <<>>
    /\ selected' = <<>>
    /\ UNCHANGED unitVars
    /\ dismissed' = FALSE
    /\ UNCHANGED <<isLoadingSuggestions, blurTimers, suggestionRequests, focused,
                   pageVars, weatherRequests, apiKey>>

HandleFocus ==
    /\ ~focused
    /\ ~isLoading
    /\ ~MicrotaskPending
    /\ focused' = TRUE
    /\ showSuggestions' =
          IF Len(query) >= MinQueryLen /\ Len(suggestions) > 0 THEN TRUE ELSE showSuggestions
    /\ lastEvent' = [op |-> "handleFocus", arg |-> <<>>]
    /\ emitted' = <<>>
    /\ selected' = <<>>
    /\ UNCHANGED unitVars
    /\ cleared' = {}
    /\ dismissed' = FALSE
    /\ UNCHANGED <<query, suggestions, isLoadingSuggestions, debounceTimers, handler,
                   blurTimers, suggestionRequests, pageVars, weatherRequests, apiKey,
                   fetchesSinceChange>>

HandleBlurHidesAtOnce ==
    /\ focused
    /\ ~MicrotaskPending
    /\ blurTimers < MaxBlurTimers
    /\ focused' = FALSE
    /\ showSuggestions' = FALSE
    /\ blurTimers' = blurTimers + 1
    /\ lastEvent' = [op |-> "handleBlur", arg |-> <<>>]
    /\ emitted' = <<>>
    /\ selected' = <<>>
    /\ UNCHANGED unitVars
    /\ cleared' = {}
    /\ UNCHANGED <<query, suggestions, isLoadingSuggestions, debounceTimers,
                   handler, suggestionRequests, pageVars, weatherRequests, apiKey,
                   dismissed, fetchesSinceChange>>

HandleBlur ==
    /\ focused
    /\ ~MicrotaskPending
    /\ blurTimers < MaxBlurTimers
    /\ focused' = FALSE
    /\ blurTimers' = blurTimers + 1
    /\ lastEvent' = [op |-> "handleBlur", arg |-> <<>>]
    /\ emitted' = <<>>
    /\ selected' = <<>>
    /\ UNCHANGED unitVars
    /\ cleared' = {}
    /\ UNCHANGED <<formVars, debounceTimers, handler, suggestionRequests, pageVars,
                   weatherRequests, apiKey, dismissed, fetchesSinceChange>>

BlurTimerFiresUnlessFocused ==
    /\ blurTimers > 0
    /\ ~MicrotaskPending
    /\ blurTimers' = blurTimers - 1
    /\ showSuggestions' = (focused /\ showSuggestions)
    /\ lastEvent' = [op |-> "blurTimer", arg |-> <<>>]
    /\ emitted' = <<>>
    /\ selected' = <<>>
    /\ UNCHANGED unitVars
    /\ cleared' = {}
    /\ dismissed' = TRUE
    /\ UNCHANGED <<query, suggestions, isLoadingSuggestions, debounceTimers, handler,
                   suggestionRequests, focused, pageVars, weatherRequests, apiKey,
                   fetchesSinceChange>>

BlurTimerFires ==
    /\ blurTimers > 0
    /\ ~MicrotaskPending
    /\ blurTimers' = blurTimers - 1
    /\ showSuggestions' = FALSE
    /\ lastEvent' = [op |-> "blurTimer", arg |-> <<>>]
    /\ emitted' = <<>>
    /\ selected' = <<>>
    /\ UNCHANGED unitVars
    /\ cleared' = {}
    /\ dismissed' = TRUE
    /\ UNCHANGED <<query, suggestions, isLoadingSuggestions, debounceTimers, handler,
                   suggestionRequests, focused, pageVars, weatherRequests, apiKey,
                   fetchesSinceChange>>

-----------------------------------------------------------------------------
(* HomePage *)

HandleCitySelectByName(city) ==
    /\ isLoading' = TRUE
    /\ error' = NullString
    /\ weatherData' = NullData
    /\ selectedCityName' = city.name
    /\ weatherRequests' =
           Append(Overlap(weatherRequests),
                  [query |-> city.name, net |-> apiKey, overlapped |-> (Len(weatherRequests) > 0)])

HandleCitySelectKeepsError(city) ==
    /\ isLoading' = TRUE
    /\ weatherData' = NullData
    /\ selectedCityName' = city.name
    /\ weatherRequests' =
           Append(Overlap(weatherRequests),
                  [query |-> WeatherQuery(city), net |-> apiKey, overlapped |-> (Len(weatherRequests) > 0)])
    /\ UNCHANGED error

\* handleCitySelect up to its await
HandleCitySelect(city) ==
    /\ isLoading' = TRUE
    /\ error' = NullString
    /\ weatherData' = NullData
    /\ selectedCityName' = city.name
    /\ weatherRequests' =
           Append(Overlap(weatherRequests),
                  [query |-> WeatherQuery(city), net |-> apiKey, overlapped |-> (Len(weatherRequests) > 0)])

WeatherSettlesToastOnly(i, outcome) ==
    /\ i \in 1..Len(weatherRequests)
    /\ IF weatherRequests[i].net
       THEN outcome \in WeatherOutcomes \cup MoreWeatherOutcomes /\ ~MicrotaskPending
       ELSE outcome = NoWeatherCall
    /\ LET r == weatherRequests[i]
           data == FetchWeatherData(r.query, outcome)
       IN /\ IF data.isError
             THEN /\ emitted' = <<WeatherErrorToast(data.message)>>
                  /\ UNCHANGED <<weatherData, error>>
             ELSE /\ weatherData' = data.data
                  /\ emitted' = <<>>
                  /\ UNCHANGED error
          /\ lastEvent' = [op |-> "weatherSettled",
                           arg |-> [failed |-> (outcome.kind # "data"), message |-> data.message,
                                    condition |-> outcome.condition, is_day |-> outcome.is_day,
                                    overlapped |-> r.overlapped]]
    /\ isLoading' = FALSE
    /\ weatherRequests' = RemoveAt(weatherRequests, i)
    /\ selected' = <<>>
    /\ UNCHANGED unitVars
    /\ cleared' = {}
    /\ UNCHANGED <<formVars, debounceTimers, handler, blurTimers, suggestionRequests,
                   focused, selectedCityName, apiKey, dismissed, fetchesSinceChange>>

\* handleCitySelect from its await on
WeatherSettles(i, outcome) ==
    /\ i \in 1..Len(weatherRequests)
    /\ IF weatherRequests[i].net
       THEN outcome \in WeatherOutcomes \cup MoreWeatherOutcomes /\ ~MicrotaskPending
       ELSE outcome = NoWeatherCall
    /\ LET r == weatherRequests[i]
           data == FetchWeatherData(r.query, outcome)
       IN /\ IF data.isError
             THEN /\ error' = data.message
                  /\ emitted' = <<WeatherErrorToast(data.message)>>
                  /\ UNCHANGED weatherData
             ELSE /\ weatherData' = data.data
                  /\ emitted' = <<>>
                  /\ UNCHANGED error
          /\ lastEvent' = [op |-> "weatherSettled",
                           arg |-> [failed |-> (outcome.kind # "data"), message |-> data.message,
                                    condition |-> outcome.condition, is_day |-> outcome.is_day,
                                    overlapped |-> r.overlapped]]
    /\ isLoading' = FALSE
    /\ weatherRequests' = RemoveAt(weatherRequests, i)
    /\ selected' = <<>>
    /\ UNCHANGED unitVars
    /\ cleared' = {}
    /\ UNCHANGED <<formVars, debounceTimers, handler, blurTimers, suggestionRequests,
                   focused, selectedCityName, apiKey, dismissed, fetchesSinceChange>>

HandleSuggestionClickKeepsList(city) ==
    /\ DropdownDisplayed
    /\ city \in Range(suggestions)
    /\ ~MicrotaskPending
    /\ InFlight < MaxInFlight
    /\ query' = SelectedText(city)
    /\ showSuggestions' = FALSE
    /\ DebounceEffect(SelectedText(city))
    /\ HandleCitySelect(city)
    /\ lastEvent' = [op |-> "handleSuggestionClick", arg |-> city]
    /\ emitted' = <<>>
    /\ selected' = <<city>>
    /\ UNCHANGED unitVars
    /\ dismissed' = TRUE
    /\ UNCHANGED <<suggestions, isLoadingSuggestions, blurTimers, suggestionRequests, focused, apiKey>>

HandleSuggestionClick(city) ==
    /\ DropdownDisplayed
    /\ city \in Range(suggestions)
    /\ ~MicrotaskPending
    /\ InFlight < MaxInFlight
    /\ query' = SelectedText(city)
    /\ suggestions' = <<>>
    /\ showSuggestions' = FALSE
    /\ DebounceEffect(SelectedText(city))
    /\ HandleCitySelect(city)
    /\ lastEvent' = [op |-> "handleSuggestionClick", arg |-> city]
    /\ emitted' = <<>>
    /\ selected' = <<city>>
    /\ UNCHANGED unitVars
    /\ dismissed' = TRUE
    /\ UNCHANGED <<isLoadingSuggestions, blurTimers, suggestionRequests, focused, apiKey>>

-----------------------------------------------------------------------------

Next ==
    \/ \E q \in InputStrings : HandleInputChange(q)
    \/ HandleFocus
    \/ HandleBlur
    \/ BlurTimerFires
    \/ \E t \in debounceTimers : DebounceTimerFires(t)
    \/ \E i \in 1..MaxInFlight : \E o \in SuggestionOutcomes \cup {NoNetwork} : SuggestionSettles(i, o)
    \/ \E c \in Cities : HandleSuggestionClick(c)
    \/ \E i \in 1..MaxInFlight :
           \E o \in WeatherOutcomes \cup {NoWeatherCall} :
               WeatherSettles(i, o)

Spec == Init /\ [][Next]_vars

\* the props WeatherDisplay gives to WeatherIcon
WeatherIconProps(data) ==
    [weatherApiConditionCode |-> data.current.condition.code, isDay |-> (data.current.is_day = 1)]

\* a string | null state used as a condition
Truthy(str) == str # NullString /\ str # ""

PageViewsDataDespiteError ==
    (IF isLoading THEN {"loading"} ELSE {})
        \cup (IF Truthy(error) /\ ~isLoading THEN {"error"} ELSE {})
        \cup (IF ~isLoading /\ weatherData # NullData THEN {"weather"} ELSE {})
        \cup (IF ~isLoading /\ ~Truthy(error) /\ weatherData = NullData THEN {"placeholder"} ELSE {})

\* the panels HomePage renders under the search form
PageViews ==
    (IF isLoading THEN {"loading"} ELSE {})
        \cup (IF Truthy(error) /\ ~isLoading THEN {"error"} ELSE {})
        \cup (IF ~isLoading /\ ~Truthy(error) /\ weatherData # NullData THEN {"weather"} ELSE {})
        \cup (IF ~isLoading /\ ~Truthy(error) /\ weatherData = NullData THEN {"placeholder"} ELSE {})

-----------------------------------------------------------------------------
(* HomePage with one query typed into the form and every answer of forecast.json *)

PageInputStrings == {<<"L", "o", "n">>}

PageNext ==
    \/ \E q \in PageInputStrings : HandleInputChange(q)
    \/ HandleFocus
    \/ HandleBlur
    \/ BlurTimerFires
    \/ \E t \in debounceTimers : DebounceTimerFires(t)
    \/ \E i \in 1..MaxInFlight : \E o \in SuggestionOutcomes \cup {NoNetwork} : SuggestionSettles(i, o)
    \/ \E c \in Cities : HandleSuggestionClick(c)
    \/ \E i \in 1..MaxInFlight :
           \E o \in WeatherOutcomes \cup MoreWeatherOutcomes \cup {NoWeatherCall} : WeatherSettles(i, o)

PageSpec == Init /\ [][PageNext]_vars

-----------------------------------------------------------------------------
(* The search form on its own, with its timers and requests scheduled fairly *)

FormNext ==
    \/ \E q \in InputStrings : HandleInputChange(q)
    \/ HandleFocus
    \/ HandleBlur
    \/ BlurTimerFires
    \/ \E t \in debounceTimers : DebounceTimerFires(t)
    \/ \E i \in 1..MaxInFlight : \E o \in SuggestionOutcomes \cup {NoNetwork} : SuggestionSettles(i, o)

\* the event loop runs the callback of every timer that is not cleared, and
\* every awaited request completes
FormFairness ==
    /\ WF_vars(\E t \in debounceTimers : DebounceTimerFires(t))
    /\ \A i \in 1..MaxInFlight :
           WF_vars(\E o \in SuggestionOutcomes \cup {NoNetwork} : SuggestionSettles(i, o))

FormSpec == Init /\ [][FormNext]_vars /\ FormFairness

-----------------------------------------------------------------------------
(* WeatherIcon evaluated on its own *)

RenderWeatherIconMemo(code, isDay) ==
    /\ iconCall' = [code |-> code, isDay |-> isDay, element |-> WeatherIcon(code, isDay), made |-> TRUE]
    /\ remembered' \in {remembered, iconCall}
    /\ iconMapWrites' =
           IF code \in DOMAIN weatherApiIconMap
           THEN (code :> WeatherIcon(code, isDay).type) @@ iconMapWrites
           ELSE iconMapWrites
    /\ UNCHANGED <<iconTypeof, fetchCall, display, componentVars>>

\* one render of <WeatherIcon weatherApiConditionCode={code} isDay={isDay} />
RenderWeatherIcon(code, isDay) ==
    /\ iconCall' = [code |-> code, isDay |-> isDay, element |-> WeatherIcon(code, isDay), made |-> TRUE]
    /\ remembered' \in {remembered, iconCall}
    /\ UNCHANGED <<iconTypeof, iconMapWrites, fetchCall, display, componentVars>>

ResolverNext == \E code \in InputCodes : \E isDay \in BOOLEAN : RenderWeatherIcon(code, isDay)

\* the resolver reads neither the key nor the page; it is evaluated for both
\* kinds of React.ElementType
ResolverInit == ComponentInit /\ apiKey /\ iconTypeof \in IconTypeofs

ResolverSpec == ResolverInit /\ [][ResolverNext]_vars

-----------------------------------------------------------------------------
(* WeatherDisplay rendered on its own *)

RenderWeatherDisplay(data) ==
    /\ display' = [made |-> TRUE, data |-> data, output |-> WeatherDisplay(data)]
    /\ UNCHANGED <<iconTypeof, iconMapWrites, iconCall, remembered, fetchCall, componentVars>>

DisplayNext == \E data \in DisplayData : RenderWeatherDisplay(data)

\* the display reads neither the key nor the page
DisplayInit == ComponentInit /\ iconTypeof \in IconTypeofs

DisplaySpec == DisplayInit /\ [][DisplayNext]_vars

-----------------------------------------------------------------------------
(* Properties of the suggestion pipeline *)

\* the network requests among the calls made since the query last changed
NetFetches == SelectSeq(fetchesSinceChange, LAMBDA f : f.net)

\* C1: the response of a suggestion request that a later request has
\* superseded never writes the suggestions state, in whatever order the
\* responses arrive.
C1_StaleResponseIgnored ==
    [][(lastEvent'.op = "suggestionSettled" /\ lastEvent'.arg.superseded)
          => UNCHANGED suggestions]_vars

\* C2: every request sent to the suggestion service carries a query of at
\* least 3 characters.
C2_NoShortRequest ==
    /\ \A i \in 1..Len(suggestionRequests) :
          suggestionRequests[i].net => Len(suggestionRequests[i].query) >= 3
    /\ \A i \in 1..Len(fetchesSinceChange) :
          fetchesSinceChange[i].net => Len(fetchesSinceChange[i].query) >= 3

C2_Witness ==
    /\ Len(suggestionRequests) = 2
    /\ suggestionRequests[1].net
    /\ suggestionRequests[2].net
    /\ Len(query) < 3

\* C3: whenever the query has fewer than 3 characters the suggestions list
\* is empty and the dropdown is not displayed.
C3_ShortQueryEmptyList ==
    Len(query) < 3 => (suggestions = <<>> /\ ~DropdownDisplayed)

\* C4 as stated: once the timer of the last update has elapsed and the
\* query has at least 3 characters, exactly one network request has been
\* issued since that update, for the final string.
C4_ExactlyOneRequest ==
    (Len(query) >= 3 /\ debounceTimers = {})
        => NetFetches = <<[query |-> query, net |-> TRUE]>>

\* C4 amended: once the timer of the last change of the query value has
\* elapsed and the query has at least 3 characters, exactly one call of
\* fetchCitySuggestions has been made since that change, for the final
\* string; it is a network request exactly when the API key is configured
\* and the string is not all whitespace.  No call is ever made for a string
\* other than the current one.
C4_OneFetchForSettledQuery ==
    /\ Len(fetchesSinceChange) <= 1
    /\ \A i \in 1..Len(fetchesSinceChange) : fetchesSinceChange[i].query = query
    /\ (Len(query) >= 3 /\ debounceTimers = {})
          => fetchesSinceChange =
                <<[query |-> query,
                   net |-> (apiKey /\ \E j \in 1..Len(query) : query[j] # " ")]>>

C4_Witness ==
    /\ lastEvent.op = "debounceTimer"
    /\ debounceTimers = {}
    /\ query = <<"L", "o", "n">>
    /\ NetFetches = <<[query |-> query, net |-> TRUE]>>
    /\ Len(suggestionRequests) = 2

\* C5: at most one debounce timer is pending, it is the one of the current
\* query, and while the query is shorter than 3 characters no request has
\* been issued since it changed.
C5_SinglePendingTimer ==
    /\ Cardinality(debounceTimers) <= 1
    /\ \A t \in debounceTimers : t.query = query /\ t.id = handler
    /\ Len(query) < 3 => fetchesSinceChange = <<>>

C5_Witness ==
    /\ lastEvent.op = "handleInputChange"
    /\ Len(query) < 3
    /\ \E t \in cleared : Len(t.query) >= 3
    /\ Cardinality(debounceTimers) = 1

\* C6: whenever a suggestion request fails, the list becomes empty, the
\* dropdown is hidden and a notification is emitted.
C6_FailureNotified ==
    [][(lastEvent'.op = "suggestionSettled" /\ lastEvent'.arg.failed)
          => (suggestions' = <<>> /\ ~showSuggestions' /\ Len(emitted') > 0)]_vars

\* C7: the promise of fetchCitySuggestions is never rejected, whatever the
\* network answers.
C7_NeverRejects ==
    lastEvent.op = "suggestionSettled" => lastEvent.arg.promise = "fulfilled"

\* C8: a click on a city of the displayed list leaves suggestions empty,
\* the dropdown hidden, the query equal to "<name>, <country>" of that city,
\* and calls onCitySelect exactly once, with that city.
C8_SelectionEffects ==
    [][lastEvent'.op = "handleSuggestionClick"
          => /\ DropdownDisplayed
             /\ Len(selected') = 1
             /\ selected'[1] \in Range(suggestions)
             /\ suggestions' = <<>>
             /\ ~showSuggestions'
             /\ ~DropdownDisplayed'
             /\ query' = selected'[1].name \o <<",", " ">> \o selected'[1].country
             /\ Len(weatherRequests') = Len(weatherRequests) + 1
             /\ selectedCityName' = selected'[1].name]_vars

C8_Witness ==
    /\ lastEvent.op = "handleSuggestionClick"
    /\ selected = <<CityB>>
    /\ query = <<"L", "o", ",", " ", "U">>
    /\ suggestions = <<>>

\* C9: a blur hides nothing by itself (it only starts its timer), and a
\* click on a suggestion while a blur timer is pending is processed as a
\* selection.
C9_ClickWinsOverBlur ==
    [][/\ lastEvent'.op = "handleBlur"
          => /\ UNCHANGED <<query, suggestions, showSuggestions>>
             /\ blurTimers' = blurTimers + 1
       /\ (lastEvent'.op = "handleSuggestionClick" /\ blurTimers > 0)
          => /\ DropdownDisplayed
             /\ selected'[1] \in Range(suggestions)
             /\ query' = selected'[1].name \o <<",", " ">> \o selected'[1].country
             /\ suggestions' = <<>>
             /\ isLoading']_vars

C9_Witness ==
    /\ lastEvent.op = "handleSuggestionClick"
    /\ blurTimers > 0
    /\ ~focused
    /\ selected # <<>>

\* C10: the dropdown is displayed exactly when the list is non-empty and
\* has not been dismissed since the last focus or input change.
C10_VisibleIffNotDismissed ==
    DropdownDisplayed <=> (Len(suggestions) > 0 /\ ~dismissed)

-----------------------------------------------------------------------------
(* fetchWeatherData called on its own *)

\* one call, with the answer the network gives if the call reaches fetch(url)
CallFetchWeatherData(version, cityOrLat, lon, outcome) ==
    /\ fetchCall' =
          [made |-> TRUE, version |-> version, cityOrLat |-> cityOrLat, lon |-> lon, outcome |-> outcome,
           promise |-> IF version = "weatherapi"
                       THEN FetchWeatherDataPromise(cityOrLat, lon, outcome)
                       ELSE FetchWeatherDataOWM(cityOrLat, lon, outcome)]
    /\ UNCHANGED <<iconTypeof, iconMapWrites, iconCall, remembered, display, componentVars>>

FetchNext ==
    \E version \in LibraryVersions : \E cityOrLat \in CityOrLatArgs : \E lon \in LonArgs :
        \E outcome \in FetchOutcomes : CallFetchWeatherData(version, cityOrLat, lon, outcome)

FetchSpec == Init /\ [][FetchNext]_vars

-----------------------------------------------------------------------------
(* Properties of the condition resolver *)

\* C11: for every code that is no key of the table and no sentinel, WeatherIcon
\* renders Sun when isDay and Moon otherwise; and whatever the input, the
\* element it returns has one of the imported icon components as its type.
C11_FallbackAndTotal ==
    iconCall.made =>
        /\ (iconCall.code \notin DOMAIN weatherApiIconMap /\ iconCall.code \notin SentinelCodes)
              => iconCall.element = Element(Icon(IF iconCall.isDay THEN "Sun" ELSE "Moon"))
        /\ iconCall.element.type \in {Icon(n) : n \in LucideIcons}

\* an unknown code (999999) has been resolved at night
C11_Witness ==
    /\ iconCall.made
    /\ iconCall.code = 999999
    /\ ~iconCall.isDay
    /\ iconCall.element = Element(Icon("Moon"))

\* C12: for the codes -100, -101 and -102 WeatherIcon renders ThermometerSun,
\* ThermometerSnowflake and Wind, by day and by night, whatever the lookup
\* and the day/night default selected.
C12_SentinelPrecedence ==
    iconCall.made =>
        /\ iconCall.code = -100 => iconCall.element = Element(Icon("ThermometerSun"))
        /\ iconCall.code = -101 => iconCall.element = Element(Icon("ThermometerSnowflake"))
        /\ iconCall.code = -102 => iconCall.element = Element(Icon("Wind"))

\* the hot-temperature sentinel has been resolved at night
C12_Witness ==
    /\ iconCall.made
    /\ iconCall.code = -100
    /\ ~iconCall.isDay
    /\ iconCall.element = Element(Icon("ThermometerSun"))

\* C13: for every code that is a key of weatherApiIconMap, WeatherIcon renders
\* the entry itself when the entry is a single icon, and the entry's day icon
\* by day and its night icon by night when the entry is a {day, night} pair.
C13_TableLookup ==
    (iconCall.made /\ iconCall.code \in DOMAIN weatherApiIconMap) =>
        LET entry == weatherApiIconMap[iconCall.code]
        IN iconCall.element.type =
              IF "component" \in DOMAIN entry THEN entry
              ELSE IF iconCall.isDay THEN entry.day ELSE entry.night

-----------------------------------------------------------------------------
(* Properties of the page *)

\* C15: when a weather fetch started by handleCitySelect has ended in failure
\* and loading has ended, the page shows the error panel with the message of
\* the failure, does not show the weather panel, and a notification with the
\* same message has been emitted.
C15_ErrorBlocks ==
    (lastEvent.op = "weatherSettled" /\ lastEvent.arg.failed /\ ~isLoading) =>
        /\ "error" \in PageViews
        /\ error = lastEvent.arg.message
        /\ "weather" \notin PageViews
        /\ emitted = <<WeatherErrorToast(lastEvent.arg.message)>>

\* the service has answered a selection with its "no matching location" error
C15_Witness ==
    /\ lastEvent.op = "weatherSettled"
    /\ lastEvent.arg.failed
    /\ lastEvent.arg.message = "No matching location found."
    /\ PageViews = {"error"}

\* C16: whatever its arguments and whatever the network answers (missing key,
\* invalid parameters, non-OK response, error payload, network error, body
\* that is no JSON), the promise fetchWeatherData returns is fulfilled, with
\* the weather data or with an object whose error has a code and a message.
C16_NeverRejects ==
    fetchCall.made =>
        /\ fetchCall.promise.state = "fulfilled"
        /\ \/ ~fetchCall.promise.value.isError /\ fetchCall.promise.value.data # NullData
           \/ /\ fetchCall.promise.value.isError
              /\ fetchCall.promise.value.code # 0
              /\ fetchCall.promise.value.message # ""

\* C17: without an API key the page emits the "API Key Missing" notification
\* at mount, and only then, and sets the error state; no call reaches the
\* network; every call of fetchCitySuggestions resolves to the empty list and
\* fetchWeatherData resolves to an error result with code -1.
C17_MissingCredential ==
    ~apiKey =>
        /\ lastEvent.op = "mount" => (emitted = <<ApiKeyToast>> /\ error = ApiKeyErrorMsg)
        /\ lastEvent.op # "mount" => ApiKeyToast \notin Range(emitted)
        /\ \A i \in 1..Len(suggestionRequests) : ~suggestionRequests[i].net
        /\ \A i \in 1..Len(weatherRequests) : ~weatherRequests[i].net
        /\ \A i \in 1..Len(fetchesSinceChange) : ~fetchesSinceChange[i].net
        /\ lastEvent.op = "suggestionSettled" =>
              (lastEvent.arg.promise = "fulfilled" /\ suggestions = <<>>)
        /\ \A c \in Cities :
              LET data == FetchWeatherData(WeatherQuery(c), NoWeatherCall)
              IN data.isError /\ data.code = -1

\* without a key, a query of three characters has been looked up and the call
\* has settled
C17_Witness ==
    /\ ~apiKey
    /\ lastEvent.op = "suggestionSettled"
    /\ Len(fetchesSinceChange) = 1
    /\ suggestions = <<>>

C19_LoadingWhileInFlight ==
    Len(suggestionRequests) > 0 => isLoadingSuggestions

\* C20: handleCitySelect sets isLoading and clears the previous weather data
\* and the previous error before its fetch is awaited; when the fetch has
\* finished, with success or failure, isLoading is false; and when the
\* invocation ran concurrently with no other one, exactly one of weatherData
\* and error is non-null afterwards.
C20_SelectProtocol ==
    [][/\ lastEvent'.op = "handleSuggestionClick" =>
            /\ isLoading'
            /\ weatherData' = NullData
            /\ error' = NullString
            /\ Len(weatherRequests') = Len(weatherRequests) + 1
       /\ lastEvent'.op = "weatherSettled" =>
            /\ ~isLoading'
            /\ ~lastEvent'.arg.overlapped =>
                  ((weatherData' # NullData) # (error' # NullString))]_vars

\* a selection that ran alone has ended in failure: the error is set, the data is not
C20_Witness ==
    /\ lastEvent.op = "weatherSettled"
    /\ ~lastEvent.arg.overlapped
    /\ lastEvent.arg.failed
    /\ ~isLoading
    /\ weatherData = NullData
    /\ error # NullString

\* C21: in every reachable state HomePage renders exactly one of its four
\* panels: the loading indicator, the error panel, the weather display or the
\* placeholder; never two of them and never none.
C21_ExactlyOneView ==
    /\ PageViews \subseteq {"loading", "error", "weather", "placeholder"}
    /\ Cardinality(PageViews) = 1

\* an error and weather data are both held, and only the error panel is rendered
C21_Witness ==
    /\ error # NullString
    /\ weatherData # NullData
    /\ ~isLoading
    /\ PageViews = {"error"}

HasParts(data) ==
    /\ Has(data.current, "condition")
    /\ Has(data.current, "vis_km")
    /\ Has(data.forecast.forecastday[1], "day")
    /\ Has(data.forecast.forecastday[1], "astro")

LastSelected == CHOOSE c \in Cities : c.name = selectedCityName

\* C23: once every fetch has completed, the weather data or the error held by
\* the page is the result of the most recently selected city, whatever the
\* order in which the fetches completed; a fetch of an earlier selection
\* neither replaces the result of a later one nor ends the loading state
\* while the later fetch is in flight.
C23_LastSelectionWins ==
    (weatherRequests = <<>> /\ selectedCityName # NullName /\ weatherData # NullData)
        => weatherData.location = WeatherQuery(LastSelected)

\* C24: weatherData and error are never both non-null.
C24_DataXorError == ~(weatherData # NullData /\ error # NullString)

-----------------------------------------------------------------------------
(* Properties of the form after a selection, a blur or an input change *)

\* C25: a selection starts no suggestion lookup of its own: while the input
\* holds the "<name>, <country>" text that handleSuggestionClick put there
\* (PageSpec types no such text), no network request has been issued for that
\* text and the list is not displayed.
C25_SelectionStartsNoLookup ==
    \A c \in Cities :
        query = SelectedText(c) =>
            /\ \A i \in 1..Len(fetchesSinceChange) : ~fetchesSinceChange[i].net
            /\ ~DropdownDisplayed

C27_InputChangeKeepsList ==
    [][(lastEvent'.op = "handleInputChange" /\ Len(query') >= MinQueryLen) =>
           /\ UNCHANGED <<suggestions, isLoadingSuggestions>>
           /\ showSuggestions'
           /\ DropdownDisplayed' = (Len(suggestions) > 0)]_vars

\* the query has just been changed and the list of the previous query is displayed
C27_Witness ==
    /\ lastEvent.op = "handleInputChange"
    /\ Len(query) >= MinQueryLen
    /\ DropdownDisplayed
    /\ fetchesSinceChange = <<>>

\* no debounce timer is pending and no suggestion request is in flight
Quiescent == debounceTimers = {} /\ suggestionRequests = <<>>

\* C28: when every timer fires and every suggestion request completes, a run
\* in which the input changes stop reaches a state with no debounce timer
\* pending and no request in flight and stays there; and in every such state
\* isLoadingSuggestions is false.
C28_LoadingSettles ==
    /\ [](Quiescent => ~isLoadingSuggestions)
    /\ \/ []<><<\E q \in InputStrings : HandleInputChange(q)>>_vars
       \/ <>[](Quiescent /\ ~isLoadingSuggestions)

\* the last request in flight has completed with no timer pending
C28_Witness ==
    /\ Quiescent
    /\ lastEvent.op = "suggestionSettled"
    /\ lastEvent.arg.superseded
    /\ ~isLoadingSuggestions

-----------------------------------------------------------------------------
(* Day and night in the condition resolver *)

\* the codes whose entry holds two different icons
DayNightCodes == {1000, 1003}

\* C29: for every code of the table other than 1000 and 1003, and for the
\* sentinel codes, WeatherIcon selects the same icon for isDay true and for
\* isDay false.
C29_DayNightConfined ==
    (/\ iconCall.made
     /\ remembered.made
     /\ iconCall.code = remembered.code
     /\ iconCall.code \in (DOMAIN weatherApiIconMap \cup SentinelCodes) \ DayNightCodes)
        => iconCall.element = remembered.element

====
